---------------------------- MODULE Spec2Model ----------------------------
(***************************************************************************)
(* tbsh (src/src/main.cpp): the directory history navigator, the cd/bk/fw  *)
(* commands of the session loop, and the upward / downward path searches.  *)
(*                                                                         *)
(* A path is a sequence of components, <<>> being the root "/"; a          *)
(* component is a sequence of characters, so that the byte-wise tests of   *)
(* the source are computed on characters.                                  *)
(***************************************************************************)
EXTENDS Integers, Sequences, FiniteSets, TLC

VARIABLES
  history,        \* DirectoryHistory::history        (main.cpp:20)
  current_index,  \* DirectoryHistory::current_index  (main.cpp:21), 0-based
  fs,             \* the filesystem: the set of entries below the root
  cwd,            \* the process working directory (chdir / fs::current_path)
  home,           \* getenv("HOME"): a path argument, or NoArg when unset
  denied,         \* directories the OS currently refuses to chdir into
  running,        \* Shell::run's while (true) loop has not left
  last,           \* the call or command executed last, with its outcome
  prev,           \* the one executed before it
  up,             \* a call of Shell::upfind: its arguments, locals, outcome
  down,           \* a call of Shell::downfind: its arguments, locals, outcome
  tr,             \* a call of Shell::transform_command: arguments, locals
  custom_commands,\* Shell::custom_commands: command name -> handler
  iter            \* the last iteration of Shell::run's loop, as it went

vars ==
  <<history, current_index, fs, cwd, home, denied, running, last, prev,
    up, down, tr, custom_commands, iter>>

---------------------------------------------------------------------------
(* Bounds *)

\* add is not called once the deque holds MaxHist entries
MaxHist == 4

\* at most MaxDenied directories are forbidden at a time
MaxDenied == 1

\* a filesystem holds at most MaxEntries entries below the root
MaxEntries == 3

\* downfind is called with limit in 0..MaxLimit
MaxLimit == 4

---------------------------------------------------------------------------
(* Paths *)

CompA == <<"a">>
CompB == <<"b", "a">>
Comps == {CompA, CompB}

Root == <<>>

\* a value no path of the model equals
NoPath == << <<"?">> >>

\* fs::path::parent_path of an absolute path ("/" is its own parent)
parent_path(p) == IF p = Root THEN Root ELSE SubSeq(p, 1, Len(p) - 1)

\* the "." and ".." components
Dot == <<".">>
DotDot == <<".", ".">>

\* a filesystem is a set of entries, each an absolute path that is a
\* directory or not; the root is a directory of every filesystem
Entry(p, d) == [path |-> p, dir |-> d]

Exists(f, p) == p = Root \/ \E e \in f : e.path = p

IsDir(f, p) == p = Root \/ Entry(p, TRUE) \in f

\* the OS's path walk from directory `at` along `comps`: the entry reached,
\* or NoPath (ENOENT, ENOTDIR)
RECURSIVE namei(_, _, _)
namei(f, at, comps) ==
  IF comps = <<>> THEN at
  ELSE IF at = NoPath \/ ~IsDir(f, at) THEN NoPath
  ELSE LET c == Head(comps)
       IN  IF c = Dot THEN namei(f, at, Tail(comps))
           ELSE IF c = DotDot THEN namei(f, parent_path(at), Tail(comps))
           ELSE IF Exists(f, Append(at, c))
             THEN namei(f, Append(at, c), Tail(comps))
             ELSE NoPath

\* a path argument as typed: absolute or relative to the working directory
Arg(abs, comps) == [abs |-> abs, comps |-> comps]

\* no argument given / variable unset (a token is never empty)
NoArg == Arg(FALSE, <<>>)

---------------------------------------------------------------------------
(* DirectoryHistory, main.cpp:18-48.  A history value is the pair of the   *)
(* class's two fields.                                                     *)

Hist(h, i) == [history |-> h, current_index |-> i]

\* the object as constructed: empty deque, current_index = 0
EmptyHistory == Hist(<<>>, 0)

\* deque::back()
deque_back(s) == s[Len(s)]

\* add without the comparison against the tail
add_always(h, path) ==
  Hist(Append(h.history, path), Len(h.history))

\* add comparing against the current entry instead of the tail
add_cmp_current(h, path) ==
  IF h.history = <<>> \/ h.history[h.current_index + 1] # path
    THEN Hist(Append(h.history, path), Len(h.history))
    ELSE h

\* add discarding the entries beyond the cursor (browser-style history)
add_truncating(h, path) ==
  IF h.history = <<>> \/ deque_back(h.history) # path
    THEN LET kept == IF h.history = <<>> THEN <<>>
                     ELSE SubSeq(h.history, 1, h.current_index + 1)
         IN  Hist(Append(kept, path), Len(kept))
    ELSE h

\* void add(const std::string &path)
add(h, path) ==
  IF h.history = <<>> \/ deque_back(h.history) # path
    THEN Hist(Append(h.history, path), (Len(h.history) + 1) - 1)
    ELSE h

\* back and forward give the object after the call, whether the call
\* returned (ok) or threw, and the string returned.

\* back returning the entry it leaves instead of the one it reaches
back_stale(h) ==
  IF h.current_index > 0
    THEN [h |-> Hist(h.history, h.current_index - 1), ok |-> TRUE,
          val |-> h.history[h.current_index + 1]]
    ELSE [h |-> h, ok |-> FALSE, val |-> NoPath]

\* std::string back()
back(h) ==
  IF h.current_index > 0
    THEN [h |-> Hist(h.history, h.current_index - 1), ok |-> TRUE,
          val |-> h.history[(h.current_index - 1) + 1]]
    ELSE [h |-> h, ok |-> FALSE, val |-> NoPath]

\* forward wrapping to the first entry at the tail instead of throwing
forward_wrapping(h) ==
  IF h.current_index < Len(h.history) - 1
    THEN [h |-> Hist(h.history, h.current_index + 1), ok |-> TRUE,
          val |-> h.history[(h.current_index + 1) + 1]]
    ELSE [h |-> Hist(h.history, 0), ok |-> TRUE, val |-> h.history[1]]

\* forward with the bound off by one: current_index < history.size()
forward_off_by_one(h) ==
  IF h.current_index < Len(h.history)
    THEN [h |-> Hist(h.history, h.current_index + 1), ok |-> TRUE,
          val |-> IF h.current_index + 2 <= Len(h.history)
                    THEN h.history[h.current_index + 2] ELSE NoPath]
    ELSE [h |-> h, ok |-> FALSE, val |-> NoPath]

\* std::string forward().  history.size() - 1 is unsigned: on an empty
\* deque it is SIZE_MAX, so the guard passes and the read is out of range.
forward(h) ==
  IF h.history = <<>>
    THEN [h |-> Hist(h.history, h.current_index + 1), ok |-> TRUE, val |-> NoPath]
    ELSE IF h.current_index < Len(h.history) - 1
      THEN [h |-> Hist(h.history, h.current_index + 1), ok |-> TRUE,
            val |-> h.history[(h.current_index + 1) + 1]]
      ELSE [h |-> h, ok |-> FALSE, val |-> NoPath]

\* const std::string &current() const
current(h) == h.history[h.current_index + 1]

\* the history object of the state
H == Hist(history, current_index)

---------------------------------------------------------------------------
(* What the last call did: op, its path argument, whether it succeeded,    *)
(* the error otherwise, the string it returned or printed, the cursor      *)
(* before and after, and (for the commands) the working directory before.  *)

Op(op, arg, ok, err, val, from, to, dir) ==
  [op |-> op, arg |-> arg, ok |-> ok, err |-> err, val |-> val,
   from |-> from, to |-> to, dir |-> dir]

NoOp == Op("none", NoPath, TRUE, "none", NoPath, 0, 0, NoPath)

\* no search is in progress
NoCall == [pc |-> "none"]

\* std::map custom_commands as constructed: empty
NoCommands == <<>>

\* custom_commands[name] = func
add_custom_command(commands, name, func) ==
  [n \in DOMAIN commands \cup {name} |->
     IF n = name THEN func ELSE commands[n]]

\* the registry main hands to run(): its two lambdas under "bk" and "fw"
MainCommands ==
  add_custom_command(add_custom_command(NoCommands, <<"b", "k">>, "bk"),
                     <<"f", "w">>, "fw")

\* one iteration of run's loop: the line read, the transformed line, the
\* tokens, the dispatch branch taken, the handler called and how it ended,
\* and whether fork() made a child
Iter(line, transformed, args, branch, handler, outcome, child) ==
  [line |-> line, transformed |-> transformed, args |-> args,
   branch |-> branch, handler |-> handler, outcome |-> outcome,
   child |-> child]

NoIter == Iter(<<>>, <<>>, <<>>, "none", "none", "none", FALSE)

---------------------------------------------------------------------------
(* DirectoryHistory driven call by call (any client of the class)          *)

\* the paths a client passes to add
HistPaths == {Root, <<CompA>>, <<CompB>>}

\* Shell::Shell seeds the fresh object with the starting directory
InitHist ==
  /\ \E p \in HistPaths :
       /\ history = add(EmptyHistory, p).history
       /\ current_index = add(EmptyHistory, p).current_index
  /\ fs = {}
  /\ cwd = Root
  /\ home = NoArg
  /\ denied = {}
  /\ running = TRUE
  /\ last = NoOp
  /\ prev = NoOp
  /\ tr = NoCall
  /\ custom_commands = NoCommands
  /\ iter = NoIter
  /\ up = NoCall
  /\ down = NoCall

CallAdd ==
  \E p \in HistPaths :
    /\ Len(add(H, p).history) <= MaxHist
    /\ history' = add(H, p).history
    /\ current_index' = add(H, p).current_index
    /\ last' = Op("add", p, TRUE, "none", NoPath, current_index, current_index', NoPath)
    /\ prev' = last
    /\ UNCHANGED <<fs, cwd, home, denied, running, up, down, tr, custom_commands, iter>>

CallBack ==
  /\ history' = back(H).h.history
  /\ current_index' = back(H).h.current_index
  /\ last' = Op("back", NoPath, back(H).ok,
                IF back(H).ok THEN "none" ELSE "exhausted", back(H).val,
                current_index, current_index', NoPath)
  /\ prev' = last
  /\ UNCHANGED <<fs, cwd, home, denied, running, up, down, tr, custom_commands, iter>>

CallForward ==
  /\ history' = forward(H).h.history
  /\ current_index' = forward(H).h.current_index
  /\ last' = Op("forward", NoPath, forward(H).ok,
                IF forward(H).ok THEN "none" ELSE "exhausted", forward(H).val,
                current_index, current_index', NoPath)
  /\ prev' = last
  /\ UNCHANGED <<fs, cwd, home, denied, running, up, down, tr, custom_commands, iter>>

NextHist == CallAdd \/ CallBack \/ CallForward

SpecHist == InitHist /\ [][NextHist]_vars

---------------------------------------------------------------------------
(* The session: Shell::run's cd branch and main's bk and fw handlers.      *)
(* A session value is the history object and the working directory.        *)

Sess(h, d) == [h |-> h, cwd |-> d]

S == Sess(H, cwd)

\* chdir(2) from working directory `from`: the directory entered, or NoPath
\* when the OS rejects the target (missing, not a directory, forbidden)
chdir(from, arg) ==
  LET t == namei(fs, IF arg.abs THEN Root ELSE from, arg.comps)
  IN  IF t # NoPath /\ IsDir(fs, t) /\ t \notin denied THEN t ELSE NoPath

\* change_directory recording the requested path before chdir is tried
change_directory_add_first(s, arg, update_history) ==
  LET t == chdir(s.cwd, arg)
      h == IF update_history THEN add(s.h, arg.comps) ELSE s.h
  IN  IF t # NoPath
        THEN [ok |-> TRUE, s |-> Sess(h, t)]
        ELSE [ok |-> FALSE, s |-> Sess(h, s.cwd)]

\* bool change_directory(const char *path, bool update_history = true);
\* fs::current_path() after a successful chdir is the directory entered
change_directory(s, arg, update_history) ==
  LET t == chdir(s.cwd, arg)
  IN  IF t # NoPath
        THEN [ok |-> TRUE,
              s  |-> Sess(IF update_history THEN add(s.h, t) ELSE s.h, t)]
        ELSE [ok |-> FALSE, s |-> s]

\* the cd branch's target: args[1], else getenv("HOME"), else "/"
cd_path(arg) ==
  IF arg # NoArg THEN arg
  ELSE IF home # NoArg THEN home
  ELSE Arg(TRUE, <<>>)

\* the cd branch: the session after it, and the directory it reports
cd(s, arg) ==
  LET r == change_directory(s, cd_path(arg), TRUE)
  IN  [s |-> r.s, ok |-> r.ok,
       val |-> IF r.ok THEN current(r.s.h) ELSE NoPath]

\* the bk handler calling change_directory with update_history = true
bk_updating_history(s) ==
  LET b == back(s.h)
  IN  IF ~b.ok THEN [s |-> s, ok |-> FALSE, err |-> "exhausted", val |-> NoPath]
      ELSE LET r == change_directory(Sess(b.h, s.cwd), Arg(TRUE, b.val), TRUE)
           IN  [s |-> r.s, ok |-> r.ok,
                err |-> IF r.ok THEN "none" ELSE "chdir", val |-> b.val]

\* the "bk" handler: back() throwing is caught inside the handler
bk(s) ==
  LET b == back(s.h)
  IN  IF ~b.ok THEN [s |-> s, ok |-> FALSE, err |-> "exhausted", val |-> NoPath]
      ELSE LET r == change_directory(Sess(b.h, s.cwd), Arg(TRUE, b.val), FALSE)
           IN  [s |-> r.s, ok |-> r.ok,
                err |-> IF r.ok THEN "none" ELSE "chdir", val |-> b.val]

\* the "fw" handler
fw(s) ==
  LET f == forward(s.h)
  IN  IF ~f.ok THEN [s |-> s, ok |-> FALSE, err |-> "exhausted", val |-> NoPath]
      ELSE LET r == change_directory(Sess(f.h, s.cwd), Arg(TRUE, f.val), FALSE)
           IN  [s |-> r.s, ok |-> r.ok,
                err |-> IF r.ok THEN "none" ELSE "chdir", val |-> f.val]

\* the tree the session runs in: /a/, /a/ba/ and the file /ba
SessionTree ==
  {Entry(<<CompA>>, TRUE), Entry(<<CompA, CompB>>, TRUE), Entry(<<CompB>>, FALSE)}

DirsOf(f) == {Root} \cup {e.path : e \in {x \in f : x.dir}}

\* the arguments typed after cd: /, /a, /a/ba, /ba, .., ba, a, or none
CdArgs ==
  {Arg(TRUE, <<>>), Arg(TRUE, <<CompA>>), Arg(TRUE, <<CompA, CompB>>),
   Arg(TRUE, <<CompB>>), Arg(FALSE, <<DotDot>>), Arg(FALSE, <<CompB>>),
   Arg(FALSE, <<CompA>>), NoArg}

Homes == {NoArg, Arg(TRUE, <<CompA>>)}

\* Shell::Shell: the history is seeded with fs::current_path()
Init ==
  /\ fs = SessionTree
  /\ cwd \in DirsOf(SessionTree)
  /\ home \in Homes
  /\ denied = {}
  /\ history = add(EmptyHistory, cwd).history
  /\ current_index = add(EmptyHistory, cwd).current_index
  /\ running = TRUE
  /\ last = NoOp
  /\ prev = NoOp
  /\ tr = NoCall
  /\ custom_commands = MainCommands
  /\ iter = NoIter
  /\ up = NoCall
  /\ down = NoCall

\* a line "cd [arg]"
Cd ==
  \E arg \in CdArgs :
    /\ running
    /\ LET r == cd(S, arg)
       IN  /\ Len(r.s.h.history) <= MaxHist
           /\ history' = r.s.h.history
           /\ current_index' = r.s.h.current_index
           /\ cwd' = r.s.cwd
           /\ last' = Op("cd", cd_path(arg).comps, r.ok,
                         IF r.ok THEN "none" ELSE "chdir", r.val,
                         current_index, r.s.h.current_index, cwd)
    /\ UNCHANGED <<fs, home, denied, running, prev, up, down, tr, custom_commands, iter>>

\* a line "bk"
Bk ==
  /\ running
  /\ LET r == bk(S)
     IN  /\ Len(r.s.h.history) <= MaxHist
         /\ history' = r.s.h.history
         /\ current_index' = r.s.h.current_index
         /\ cwd' = r.s.cwd
         /\ last' = Op("bk", NoPath, r.ok, r.err, r.val,
                       current_index, r.s.h.current_index, cwd)
  /\ UNCHANGED <<fs, home, denied, running, prev, up, down, tr, custom_commands, iter>>

\* a line "fw"
Fw ==
  /\ running
  /\ LET r == fw(S)
     IN  /\ Len(r.s.h.history) <= MaxHist
         /\ history' = r.s.h.history
         /\ current_index' = r.s.h.current_index
         /\ cwd' = r.s.cwd
         /\ last' = Op("fw", NoPath, r.ok, r.err, r.val,
                       current_index, r.s.h.current_index, cwd)
  /\ UNCHANGED <<fs, home, denied, running, prev, up, down, tr, custom_commands, iter>>

\* any other command: fork, execvp, waitpid.  The child may change which
\* directories the OS lets the shell enter (chmod), at most MaxDenied at once
External ==
  /\ running
  /\ \E d \in DirsOf(fs) :
       /\ denied' = IF d \in denied THEN denied \ {d} ELSE denied \cup {d}
       /\ Cardinality(denied') <= MaxDenied
  /\ last' = Op("exec", NoPath, TRUE, "none", NoPath, current_index, current_index, cwd)
  /\ UNCHANGED <<history, current_index, fs, cwd, home, running, prev, up, down, tr, custom_commands, iter>>

\* a line "exit"
Exit ==
  /\ running
  /\ running' = FALSE
  /\ last' = Op("exit", NoPath, TRUE, "none", NoPath, current_index, current_index, cwd)
  /\ UNCHANGED <<history, current_index, fs, cwd, home, denied, prev, up, down, tr, custom_commands, iter>>

\* readline returns a null pointer: end of input
Eof ==
  /\ running
  /\ running' = FALSE
  /\ last' = Op("eof", NoPath, TRUE, "none", NoPath, current_index, current_index, cwd)
  /\ UNCHANGED <<history, current_index, fs, cwd, home, denied, prev, up, down, tr, custom_commands, iter>>

Next == Cd \/ Bk \/ Fw \/ External \/ Exit \/ Eof

Spec == Init /\ [][Next]_vars

---------------------------------------------------------------------------
(* Claims about DirectoryHistory and the commands that use it              *)

IsPrefix(s, t) == Len(s) <= Len(t) /\ SubSeq(t, 1, Len(s)) = s

\* C1: once seeded, after any sequence of add, back and forward calls,
\* failing ones included, the history is non-empty and the cursor indexes
\* one of its entries, so current() is defined.
C1_CursorInRange ==
  /\ history # <<>>
  /\ 0 <= current_index
  /\ current_index < Len(history)
  /\ (current_index + 1) \in DOMAIN history

\* on a grown history, forward() succeeded and the next forward() failed
C1_Witness ==
  /\ Len(history) >= 3
  /\ prev.op = "forward" /\ prev.ok
  /\ last.op = "forward" /\ ~last.ok

\* C2: add(path) leaves the cursor on the last entry and makes current()
\* return path, also when back() had moved the cursor off the tail.
C2_AddMovesCursorToTail ==
  last.op = "add" =>
    /\ current_index = Len(history) - 1
    /\ current(H) = last.arg

\* C3: a cd that changed the working directory reports the new working
\* directory.
C3_CdReportsWorkingDirectory ==
  (last.op = "cd" /\ last.ok) => last.val = cwd

\* C4: the history is an append-only log changed only by add: every step
\* keeps the stored entries as a prefix, only a call of add (the cd command)
\* changes them, and in every state back() and forward() leave them as they
\* are while add(p) only appends, wherever the cursor is.
C4_AppendOnly ==
  [][ /\ IsPrefix(history, history')
      /\ (history' # history => last'.op \in {"add", "cd"})
      /\ back(H).h.history = history
      /\ forward(H).h.history = history
      /\ \A p \in DirsOf(fs) : IsPrefix(history, add(H, p).history)
    ]_vars

\* a cd appended an entry while the cursor was off the tail, and the entries
\* that lay beyond the cursor are still there
C4_Witness ==
  /\ last.op = "cd" /\ last.ok
  /\ last.to = Len(history) - 1
  /\ last.from + 1 < last.to

\* C5: back() with cursor > 0 moves the cursor down by one and returns the
\* entry there, forward() with cursor < len-1 moves it up by one and returns
\* the entry there, and a successful back() then forward() (or forward()
\* then back()) restores the cursor.
C5_BackForwardStep ==
  /\ last.op = "back" =>
       /\ last.ok <=> last.from > 0
       /\ last.ok => /\ last.to = last.from - 1
                     /\ current_index = last.to
                     /\ last.val = history[last.to + 1]
  /\ last.op = "forward" =>
       /\ last.ok <=> last.from < Len(history) - 1
       /\ last.ok => /\ last.to = last.from + 1
                     /\ current_index = last.to
                     /\ last.val = history[last.to + 1]
  /\ (prev.op = "back" /\ prev.ok /\ last.op = "forward") =>
       (last.ok /\ current_index = prev.from)
  /\ (prev.op = "forward" /\ prev.ok /\ last.op = "back") =>
       (last.ok /\ current_index = prev.from)

\* a successful back() followed by forward(), away from both ends
C5_Witness ==
  /\ prev.op = "back" /\ prev.ok
  /\ last.op = "forward" /\ last.ok
  /\ 0 < last.from /\ last.to < Len(history) - 1

\* C6: bk with the cursor at 0 and fw with the cursor on the last entry fail
\* with the history-exhausted error; the session goes on, and the entries,
\* the cursor and the working directory are what they were.  back() and
\* forward() themselves throw there and leave the object as it was.
C6_ExhaustedChangesNothing ==
  [][ /\ (last'.op = "bk" /\ current_index = 0) =>
           /\ ~last'.ok /\ last'.err = "exhausted"
           /\ UNCHANGED <<history, current_index, cwd, running>>
      /\ (last'.op = "fw" /\ current_index = Len(history) - 1) =>
           /\ ~last'.ok /\ last'.err = "exhausted"
           /\ UNCHANGED <<history, current_index, cwd, running>>
      /\ current_index = 0 => (~back(H).ok /\ back(H).h = H)
      /\ current_index = Len(history) - 1 =>
           (~forward(H).ok /\ forward(H).h = H)
    ]_vars

\* fw failed on the last of several entries
C6_Witness ==
  /\ last.op = "fw" /\ last.err = "exhausted"
  /\ Len(history) >= 2
  /\ current_index = Len(history) - 1
  /\ running

\* C7: no two adjacent entries of the history are equal.
C7_NoAdjacentDuplicates ==
  \A i \in 1..(Len(history) - 1) : history[i] # history[i + 1]

\* add was called with the tail's value while the cursor was elsewhere
C7_Witness ==
  /\ last.op = "add"
  /\ Len(history) >= 2
  /\ last.arg = history[Len(history)]
  /\ last.from = last.to
  /\ last.to < Len(history) - 1

\* C8: add(p) directly after add(p) changes neither the entries nor the
\* cursor, so two calls leave what one call leaves.
C8_AddIdempotent ==
  [][ /\ (last.op = "add" /\ last'.op = "add" /\ last'.arg = last.arg) =>
           UNCHANGED <<history, current_index>>
      /\ \A p \in HistPaths : add(add(H, p), p) = add(H, p)
    ]_vars

\* add(p) appended p and add(p) was called again
C8_Witness ==
  /\ prev.op = "add" /\ last.op = "add"
  /\ prev.arg = last.arg
  /\ prev.from # prev.to

---------------------------------------------------------------------------
(* Filesystems of at most MaxEntries entries                               *)

\* the filesystems obtained from t by creating one entry in a directory
Grow(t) ==
  {t \cup {Entry(Append(d, c), k)} :
     <<d, c, k>> \in {x \in DirsOf(t) \X Comps \X BOOLEAN :
                        ~Exists(t, Append(x[1], x[2]))}}

RECURSIVE TreesUpTo(_)
TreesUpTo(n) ==
  IF n = 0 THEN {{}}
  ELSE LET P == TreesUpTo(n - 1) IN P \cup UNION {Grow(t) : t \in P}

Trees == TreesUpTo(MaxEntries)

---------------------------------------------------------------------------
(* Shell::upfind, main.cpp:74-89                                           *)

\* fs::path operator/ : an absolute right operand replaces the left one
join(dir, name) == IF name.abs THEN name.comps ELSE dir \o name.comps

\* fs::exists and fs::is_directory of an absolute path, resolved by the OS
fs_exists(p) == namei(fs, Root, p) # NoPath

fs_is_directory(p) == namei(fs, Root, p) # NoPath /\ IsDir(fs, namei(fs, Root, p))

\* fs::path::root_path of an absolute path
root_path(p) == Root

\* one pass of the loop that tests exists(candidate) alone
upfind_pass_any_entry(dir, dir_name) ==
  LET candidate == join(dir, dir_name)
  IN  IF fs_exists(candidate)
        THEN [pc |-> "return", current |-> dir, result |-> candidate]
      ELSE IF dir = root_path(dir)
        THEN [pc |-> "throw", current |-> dir, result |-> NoPath]
      ELSE [pc |-> "loop", current |-> parent_path(dir), result |-> NoPath]

\* one pass of the loop that gives up on reaching the root, before testing it
upfind_pass_root_untested(dir, dir_name) ==
  LET candidate == join(dir, dir_name)
  IN  IF dir = root_path(dir)
        THEN [pc |-> "throw", current |-> dir, result |-> NoPath]
      ELSE IF fs_exists(candidate) /\ fs_is_directory(candidate)
        THEN [pc |-> "return", current |-> dir, result |-> candidate]
      ELSE [pc |-> "loop", current |-> parent_path(dir), result |-> NoPath]

\* one pass of while (true): return the candidate, throw at the root, or
\* go on from the parent
upfind_pass(dir, dir_name) ==
  LET candidate == join(dir, dir_name)
  IN  IF fs_exists(candidate) /\ fs_is_directory(candidate)
        THEN [pc |-> "return", current |-> dir, result |-> candidate]
      ELSE IF dir = root_path(dir)
        THEN [pc |-> "throw", current |-> dir, result |-> NoPath]
      ELSE [pc |-> "loop", current |-> parent_path(dir), result |-> NoPath]

\* the names searched for: one component (a name, "." or ".."), relative
\* or with a leading "/"
UpNames == {Arg(abs, <<c>>) : abs \in BOOLEAN, c \in Comps \cup {Dot, DotDot}}

\* upfind(dir_name) is entered with start = fs::current_path(), which
\* fs::absolute leaves as it is
InitUp ==
  /\ fs \in Trees
  /\ cwd \in DirsOf(fs)
  /\ \E n \in UpNames :
       up = [pc |-> "loop", dir_name |-> n, start |-> cwd, current |-> cwd,
             result |-> NoPath, tested |-> {}]
  /\ history = add(EmptyHistory, cwd).history
  /\ current_index = add(EmptyHistory, cwd).current_index
  /\ home = NoArg
  /\ denied = {}
  /\ running = TRUE
  /\ last = NoOp
  /\ prev = NoOp
  /\ tr = NoCall
  /\ custom_commands = NoCommands
  /\ iter = NoIter
  /\ down = NoCall

\* one pass of the loop; `tested` collects the candidates looked at
UpfindPass ==
  /\ up.pc = "loop"
  /\ up' = [up EXCEPT
              !.pc = upfind_pass(up.current, up.dir_name).pc,
              !.current = upfind_pass(up.current, up.dir_name).current,
              !.result = upfind_pass(up.current, up.dir_name).result,
              !.tested = @ \cup {join(up.current, up.dir_name)}]
  /\ UNCHANGED <<history, current_index, fs, cwd, home, denied, running,
                 last, prev, down, tr, custom_commands, iter>>

NextUp == UpfindPass

SpecUp == InitUp /\ [][NextUp]_vars

\* the chain start, parent(start), ..., root
Chain(d) == {SubSeq(d, 1, k) : k \in 0..Len(d)}

\* the levels of the chain at which level/name is a directory
Hits == {a \in Chain(up.start) : fs_is_directory(join(a, up.dir_name))}

\* the level of the chain closest to start among a non-empty set of levels
Closest(levels) == CHOOSE a \in levels : \A b \in levels : Len(b) <= Len(a)

\* C10: upfind looks only at level/name for the levels start, parent(start),
\* ..., root; it returns level/name for the closest level at which that is
\* an existing directory, and throws not-found exactly when no level up to
\* and including the root has one.
C10_UpfindClosestAncestor ==
  /\ up.tested \subseteq {join(a, up.dir_name) : a \in Chain(up.start)}
  /\ up.pc = "return" =>
       /\ Hits # {}
       /\ up.result = join(Closest(Hits), up.dir_name)
  /\ up.pc = "throw" => Hits = {}
  /\ up.pc \in {"loop", "return", "throw"}
  /\ up.current \in Chain(up.start)
  /\ Cardinality(up.tested) <= Len(up.start) + 1

\* found at the root after a level where the name exists but is a file
C10_Witness ==
  /\ up.pc = "return"
  /\ Closest(Hits) = Root
  /\ Len(up.start) >= 1
  /\ ~up.dir_name.abs
  /\ \E a \in Chain(up.start) :
       fs_exists(join(a, up.dir_name)) /\ ~fs_is_directory(join(a, up.dir_name))

---------------------------------------------------------------------------
(* Shell::downfind, main.cpp:91-127                                        *)

\* fs::path::string of a relative path: the components joined by "/"
RECURSIVE path_string(_)
path_string(p) ==
  IF p = <<>> THEN <<>>
  ELSE IF Len(p) = 1 THEN p[1]
  ELSE p[1] \o <<"/">> \o path_string(Tail(p))

\* fs::relative(path, base) for a path below base
relative(p, base) == SubSeq(p, Len(base) + 1, Len(p))

\* rel_path_str.size() >= target_pattern.size() && rel_path_str.compare(
\*   size - pattern size, pattern size, target_pattern) == 0
ends_with(str, pat) ==
  /\ Len(str) >= Len(pat)
  /\ SubSeq(str, Len(str) - Len(pat) + 1, Len(str)) = pat

\* fs::recursive_directory_iterator in its place: everything below dir
children_recursive(dir) ==
  {e \in fs : Len(e.path) > Len(dir) /\ SubSeq(e.path, 1, Len(dir)) = dir}

\* what fs::directory_iterator(dir) yields, in no particular order
children(dir) == {e \in fs : Len(e.path) = Len(dir) + 1 /\ parent_path(e.path) = dir}

\* the locals on entry: search_count = 0 and the queue holding start
downfind_enter(target_pattern, start, limit) ==
  [pc |-> "while", target_pattern |-> target_pattern, start |-> start,
   limit |-> limit, search_count |-> 0, directories |-> <<start>>,
   todo |-> {}, result |-> NoPath, examined |-> 0, seen |-> {}]

\* the while condition, front() and pop(), and the iterator's construction;
\* leaving the loop throws "Target not found"
downfind_while(d) ==
  IF d.directories # <<>> /\ d.search_count < d.limit
    THEN [d EXCEPT !.pc = "for",
                   !.directories = Tail(d.directories),
                   !.todo = children(Head(d.directories))]
    ELSE [d EXCEPT !.pc = "notfound"]

\* the for body testing every entry, directories too
downfind_entry_any_kind(d, e) ==
  LET rel_path_str == path_string(relative(e.path, d.start))
  IN  IF ends_with(rel_path_str, d.target_pattern)
        THEN [d EXCEPT !.pc = "return", !.result = e.path,
                       !.todo = @ \ {e}, !.examined = @ + 1,
                       !.seen = @ \cup {e}]
        ELSE [d EXCEPT
                !.directories = IF e.dir THEN Append(@, e.path) ELSE @,
                !.search_count = @ + 1,
                !.pc = IF d.search_count + 1 >= d.limit THEN "limit" ELSE "for",
                !.todo = @ \ {e}, !.examined = @ + 1,
                !.seen = @ \cup {e}]

\* the for body throwing only once the count has passed the limit
downfind_entry_limit_passed(d, e) ==
  LET rel_path_str == path_string(relative(e.path, d.start))
  IN  IF ~e.dir /\ ends_with(rel_path_str, d.target_pattern)
        THEN [d EXCEPT !.pc = "return", !.result = e.path,
                       !.todo = @ \ {e}, !.examined = @ + 1,
                       !.seen = @ \cup {e}]
        ELSE [d EXCEPT
                !.directories = IF e.dir THEN Append(@, e.path) ELSE @,
                !.search_count = @ + 1,
                !.pc = IF d.search_count + 1 > d.limit THEN "limit" ELSE "for",
                !.todo = @ \ {e}, !.examined = @ + 1,
                !.seen = @ \cup {e}]

\* the body of the for loop on entry e: enqueue a directory, test a file
\* and return it on a match; then count it and throw at the limit.
\* `examined` counts the entries the body ran on and `seen` collects them.
downfind_entry(d, e) ==
  LET rel_path_str == path_string(relative(e.path, d.start))
  IN  IF ~e.dir /\ ends_with(rel_path_str, d.target_pattern)
        THEN [d EXCEPT !.pc = "return", !.result = e.path,
                       !.todo = @ \ {e}, !.examined = @ + 1,
                       !.seen = @ \cup {e}]
        ELSE [d EXCEPT
                !.directories = IF e.dir THEN Append(@, e.path) ELSE @,
                !.search_count = @ + 1,
                !.pc = IF d.search_count + 1 >= d.limit THEN "limit" ELSE "for",
                !.todo = @ \ {e}, !.examined = @ + 1,
                !.seen = @ \cup {e}]

\* the patterns searched for: a, ba, a/a and c (no entry's name has a c)
DownPatterns == {<<"a">>, <<"b", "a">>, <<"a", "/", "a">>, <<"c">>}

\* downfind(pattern, start, limit) is entered in some filesystem
InitDown ==
  /\ fs \in Trees
  /\ cwd \in DirsOf(fs)
  /\ \E pat \in DownPatterns, limit \in 0..MaxLimit :
       down = downfind_enter(pat, cwd, limit)
  /\ history = add(EmptyHistory, cwd).history
  /\ current_index = add(EmptyHistory, cwd).current_index
  /\ home = NoArg
  /\ denied = {}
  /\ running = TRUE
  /\ last = NoOp
  /\ prev = NoOp
  /\ tr = NoCall
  /\ custom_commands = NoCommands
  /\ iter = NoIter
  /\ up = NoCall

DownfindWhile ==
  /\ down.pc = "while"
  /\ down' = downfind_while(down)
  /\ UNCHANGED <<history, current_index, fs, cwd, home, denied, running,
                 last, prev, up, tr, custom_commands, iter>>

\* the iterator yields one of the entries it has not yielded yet
DownfindEntry ==
  /\ down.pc = "for"
  /\ \E e \in down.todo : down' = downfind_entry(down, e)
  /\ UNCHANGED <<history, current_index, fs, cwd, home, denied, running,
                 last, prev, up, tr, custom_commands, iter>>

\* the iterator is at its end: back to the while condition
DownfindEndOfDirectory ==
  /\ down.pc = "for"
  /\ down.todo = {}
  /\ down' = [down EXCEPT !.pc = "while"]
  /\ UNCHANGED <<history, current_index, fs, cwd, home, denied, running,
                 last, prev, up, tr, custom_commands, iter>>

NextDown == DownfindWhile \/ DownfindEntry \/ DownfindEndOfDirectory

SpecDown == InitDown /\ [][NextDown]_vars

\* the call runs to its end: nothing suspends a single-threaded search
SpecDownFair == SpecDown /\ WF_vars(NextDown)

\* the entries below the start directory
Below(start) ==
  {e \in fs : Len(e.path) > Len(start) /\ SubSeq(e.path, 1, Len(start)) = start}

\* the entries below start whose relative path ends with the pattern
Matching(start, pat) ==
  {e \in Below(start) : ends_with(path_string(relative(e.path, start)), pat)}

\* C9: in a tree of K entries below start, none matching, and with a budget
\* L < K, downfind ends with the search-limit-reached error having examined
\* exactly L entries.
C9_LimitReachedAfterLEntries ==
  ( /\ down.pc \in {"return", "limit", "notfound"}
    /\ Matching(down.start, down.target_pattern) = {}
    /\ down.limit < Cardinality(Below(down.start)) )
  => (down.pc = "limit" /\ down.examined = down.limit)

\* the same with a budget of at least one entry
C9_LimitReachedPositiveBudget ==
  ( /\ down.pc \in {"return", "limit", "notfound"}
    /\ Matching(down.start, down.target_pattern) = {}
    /\ down.limit >= 1
    /\ down.limit < Cardinality(Below(down.start)) )
  => (down.pc = "limit" /\ down.examined = down.limit)

\* the relative path of entry e ends with the pattern, byte for byte
Matches(e) ==
  ends_with(path_string(relative(e.path, down.start)), down.target_pattern)

Depth(p) == Len(p) - Len(down.start)

\* C11: downfind returns only a non-directory entry below start whose
\* relative path has the pattern as a byte-wise suffix; a directory is never
\* returned, and an examined non-directory entry whose relative path ends
\* with the pattern is returned, not skipped.
C11_ReturnsSuffixMatchingFile ==
  /\ down.pc = "return" =>
       /\ Entry(down.result, FALSE) \in Below(down.start)
       /\ Entry(down.result, TRUE) \notin fs
       /\ Matches(Entry(down.result, FALSE))
  /\ \A e \in down.seen :
       (~e.dir /\ Matches(e)) => (down.pc = "return" /\ down.result = e.path)

\* start/a/ba is returned for a pattern that ends inside its name ("a") or
\* spans a separator, after a directory whose relative path also ends with
\* the pattern was examined and not returned
C11_Witness ==
  /\ down.pc = "return"
  /\ Depth(down.result) = 2
  /\ down.target_pattern = <<"a">>
  /\ down.result[Len(down.result)] = CompB
  /\ \E e \in down.seen : e.dir /\ Matches(e)

\* C18: downfind terminates, with a match, the search-limit-reached error
\* or the target-not-found error, and at no point has it examined more than
\* limit entries.
C18_TerminatesWithinBudget ==
  /\ [](down.examined <= down.limit)
  /\ [](down.pc \in {"while", "for", "return", "limit", "notfound"})
  /\ <>(down.pc \in {"return", "limit", "notfound"})

\* the limit error after exactly limit entries, directories among them
C18_Witness ==
  /\ down.pc = "limit"
  /\ down.examined = down.limit
  /\ down.limit >= 2
  /\ \E e \in down.seen : e.dir

---------------------------------------------------------------------------
(* Claims about the cd command and the history it feeds                    *)

\* C15: when the OS rejects the target of a cd command, the working
\* directory, the history entries and the cursor are what they were before
\* the command; a cd that is not rejected ends in a directory the OS allows.
C15_RejectedCdChangesNothing ==
  [][ /\ (last'.op = "cd" /\ ~last'.ok) =>
           UNCHANGED <<cwd, history, current_index>>
      /\ (last'.op = "cd" /\ last'.ok) =>
           (cwd' \in DirsOf(fs) /\ cwd' \notin denied)
    ]_vars

\* a cd was rejected while the history had several entries and the cursor
\* was off the tail
C15_Witness ==
  /\ last.op = "cd" /\ ~last.ok /\ last.err = "chdir"
  /\ Len(history) >= 3
  /\ current_index < Len(history) - 1
  /\ last.dir = cwd

\* C17: at every prompt, after any sequence of cd, bk and fw commands,
\* current() is the process's working directory.
C17_CurrentIsWorkingDirectory ==
  current(H) = cwd


---------------------------------------------------------------------------
(* Strings.  A std::string is the sequence of its characters; positions    *)
(* are 0-based as in the code.                                             *)

\* std::string::substr(pos, n)
substr(str, pos, n) == SubSeq(str, pos + 1, pos + n)

\* fs::path::string of an absolute path
abs_string(p) == IF p = Root THEN <<"/">> ELSE <<"/">> \o path_string(p)

\* the components of a path string: the runs of characters between "/"s;
\* acc is the component being read
RECURSIVE split(_, _)
split(str, acc) ==
  IF str = <<>> THEN (IF acc = <<>> THEN <<>> ELSE <<acc>>)
  ELSE IF Head(str) = "/"
    THEN (IF acc = <<>> THEN <<>> ELSE <<acc>>) \o split(Tail(str), <<>>)
  ELSE split(Tail(str), Append(acc, Head(str)))

\* a path string as the OS walks it: absolute when it starts with "/", and
\* a trailing "/" asks for the directory itself ("a/" is "a/.")
parse_path(str) ==
  LET comps == split(str, <<>>)
  IN  Arg(str # <<>> /\ str[1] = "/",
          IF comps # <<>> /\ str[Len(str)] = "/" THEN Append(comps, Dot)
          ELSE comps)

---------------------------------------------------------------------------
(* The directive pattern (<|>)([a-zA-Z0-9_.\-\/]+), main.cpp:130           *)

\* the alternatives of group 1
Marker == {"<", ">"}

\* the characters of the class [a-zA-Z0-9_.\-\/] that the model's lines use
PathSafe == {"a", "b", "c", "d", "e", "f", "i", "k", "t", "w", "x",
             "_", ".", "-", "/"}

Match(position, length) ==
  [found |-> TRUE, position |-> position, length |-> length]

\* the end iterator
NoMatch == [found |-> FALSE, position |-> 0, length |-> 0]

\* the greedy +: the position after the class run that holds position pos
RECURSIVE run_end(_, _)
run_end(command, pos) ==
  IF pos < Len(command) /\ command[pos + 1] \in PathSafe
    THEN run_end(command, pos + 1)
    ELSE pos

\* the search with a + that stops after one character
RECURSIVE regex_search_lazy(_, _)
regex_search_lazy(command, from) ==
  IF from + 2 > Len(command) THEN NoMatch
  ELSE IF command[from + 1] \in Marker /\ command[from + 2] \in PathSafe
    THEN Match(from, 2)
    ELSE regex_search_lazy(command, from + 1)

\* std::regex_search over [from, end): the leftmost match, its class run
\* as long as it can be
RECURSIVE regex_search(_, _)
regex_search(command, from) ==
  IF from + 2 > Len(command) THEN NoMatch
  ELSE IF command[from + 1] \in Marker /\ command[from + 2] \in PathSafe
    THEN Match(from, run_end(command, from + 1) - from)
    ELSE regex_search(command, from + 1)

---------------------------------------------------------------------------
(* upfind and downfind as whole calls, as transform_command makes them     *)

\* a search's outcome: the string returned and the directory entry it
\* names, or the exception
Found(str, path) == [ok |-> TRUE, str |-> str, path |-> path]

NotFound == [ok |-> FALSE, str |-> <<>>, path |-> NoPath]

\* size_t limit = 1000
DefaultLimit == 1000

\* the passes of upfind's loop from dir, up to its return or throw
RECURSIVE upfind_from(_, _)
upfind_from(dir, dir_name) ==
  LET r == upfind_pass(dir, dir_name)
  IN  IF r.pc = "loop" THEN upfind_from(r.current, dir_name) ELSE r

\* (current / dir_name).string()
candidate_string(dir, dir_name) ==
  IF dir_name[1] = "/" THEN dir_name
  ELSE abs_string(dir) \o (IF dir = Root THEN <<>> ELSE <<"/">>) \o dir_name

\* std::string upfind(const std::string &dir_name, fs::path start)
upfind(dir_name, start) ==
  LET r == upfind_from(start, parse_path(dir_name))
  IN  IF r.pc = "return"
        THEN Found(candidate_string(r.current, dir_name),
                   namei(fs, Root, r.result))
        ELSE NotFound

\* the ways downfind's loops can go from d on, one per order in which the
\* directory iterators yield their entries
RECURSIVE downfind_from(_)
downfind_from(d) ==
  IF d.pc = "while" THEN downfind_from(downfind_while(d))
  ELSE IF d.pc = "for"
    THEN IF d.todo = {} THEN downfind_from([d EXCEPT !.pc = "while"])
         ELSE UNION {downfind_from(downfind_entry(d, e)) : e \in d.todo}
  ELSE {d}

\* std::string downfind(target_pattern, start, limit): entry.path().string()
\* or one of the two exceptions
downfind(target_pattern, start, limit) ==
  {IF d.pc = "return" THEN Found(abs_string(d.result), d.result) ELSE NotFound :
     d \in downfind_from(downfind_enter(target_pattern, start, limit))}


---------------------------------------------------------------------------
(* Shell::transform_command, main.cpp:129-168                              *)

\* the locals before the loop: the iterator is about to search from 0
transform_enter(command) ==
  [pc |-> "iter", command |-> command, result |-> <<>>, last_pos |-> 0,
   next |-> 0, log |-> <<>>]

\* the search the marker selects; both start at fs::current_path()
find(direction, path_pattern, start) ==
  IF direction = "<" THEN {upfind(path_pattern, start)}
  ELSE downfind(path_pattern, start, DefaultLimit)

\* what the loop body did on one match
Directive(m, direction, path_pattern, f) ==
  [position |-> m.position, length |-> m.length, direction |-> direction,
   path_pattern |-> path_pattern, ok |-> f.ok, found_path |-> f.str]

\* the loop body whose catch block appends match.str(2)
transform_match_drops_marker(t, m, f) ==
  LET direction == substr(t.command, m.position, 1)[1]
      path_pattern == substr(t.command, m.position + 1, m.length - 1)
  IN  [t EXCEPT
         !.result = @ \o substr(t.command, t.last_pos, m.position - t.last_pos)
                      \o (IF f.ok THEN f.str ELSE path_pattern),
         !.last_pos = m.position + m.length,
         !.next = m.position + m.length,
         !.log = Append(@, Directive(m, direction, path_pattern, f))]

\* the loop body on match m when the search ends as f: append the text
\* before the match, then found_path or, in the catch block, match.str(0);
\* ++iter searches on from the end of the match
transform_match(t, m, f) ==
  LET direction == substr(t.command, m.position, 1)[1]
      path_pattern == substr(t.command, m.position + 1, m.length - 1)
  IN  [t EXCEPT
         !.result = @ \o substr(t.command, t.last_pos, m.position - t.last_pos)
                      \o (IF f.ok THEN f.str
                          ELSE substr(t.command, m.position, m.length)),
         !.last_pos = m.position + m.length,
         !.next = m.position + m.length,
         !.log = Append(@, Directive(m, direction, path_pattern, f))]

\* iter == end: append the remainder of the string and return
transform_return(t) ==
  [t EXCEPT !.result = @ \o substr(t.command, t.last_pos,
                                   Len(t.command) - t.last_pos),
            !.pc = "done"]

\* the ways the whole call can go from t on (downfind's outcome depends on
\* the order of the directory listings)
RECURSIVE transform_from(_, _)
transform_from(t, start) ==
  LET m == regex_search(t.command, t.next)
  IN  IF ~m.found THEN {transform_return(t)}
      ELSE UNION {transform_from(transform_match(t, m, f), start) :
                    f \in find(substr(t.command, m.position, 1)[1],
                               substr(t.command, m.position + 1, m.length - 1),
                               start)}

\* std::string transform_command(const std::string &command)
transform_command(command, start) ==
  transform_from(transform_enter(command), start)

---------------------------------------------------------------------------
(* transform_command called on a line, match by match                      *)

\* a line has at most MaxLine characters
MaxLine == 5

\* a marker of each kind, a path-safe letter, the separator, and a blank
Alphabet == {"<", ">", "a", "/", " "}

Lines == UNION {[1..n -> Alphabet] : n \in 0..MaxLine}

\* /a/ with the file /a/a
NestedTree == {Entry(<<CompA>>, TRUE), Entry(<<CompA, CompA>>, FALSE)}

TransformTrees == {{}, SessionTree, NestedTree}

InitTransform ==
  /\ fs \in TransformTrees
  /\ cwd \in DirsOf(fs)
  /\ \E command \in Lines : tr = transform_enter(command)
  /\ history = add(EmptyHistory, cwd).history
  /\ current_index = add(EmptyHistory, cwd).current_index
  /\ home = NoArg
  /\ denied = {}
  /\ running = TRUE
  /\ last = NoOp
  /\ prev = NoOp
  /\ up = NoCall
  /\ down = NoCall
  /\ custom_commands = MainCommands
  /\ iter = NoIter

\* one pass of while (iter != end)
TransformMatch ==
  /\ tr.pc = "iter"
  /\ LET m == regex_search(tr.command, tr.next)
     IN  /\ m.found
         /\ \E f \in find(substr(tr.command, m.position, 1)[1],
                          substr(tr.command, m.position + 1, m.length - 1),
                          cwd) :
              tr' = transform_match(tr, m, f)
  /\ UNCHANGED <<history, current_index, fs, cwd, home, denied, running,
                 last, prev, up, down, custom_commands, iter>>

\* the loop is left
TransformReturn ==
  /\ tr.pc = "iter"
  /\ ~regex_search(tr.command, tr.next).found
  /\ tr' = transform_return(tr)
  /\ UNCHANGED <<history, current_index, fs, cwd, home, denied, running,
                 last, prev, up, down, custom_commands, iter>>

NextTransform == TransformMatch \/ TransformReturn

SpecTransform == InitTransform /\ [][NextTransform]_vars


---------------------------------------------------------------------------
(* The directive tokens of a line, stated on the line itself               *)

\* the positions where a marker is immediately followed by a path-safe
\* character
TokenStarts(c) ==
  {i \in 0..(Len(c) - 2) : c[i + 1] \in Marker /\ c[i + 2] \in PathSafe}

\* the marker and the maximal run of path-safe characters after it
TokenLength(c, i) ==
  1 + CHOOSE n \in 1..(Len(c) - i - 1) :
        /\ \A k \in 1..n : c[i + 1 + k] \in PathSafe
        /\ i + 1 + n = Len(c) \/ c[i + 2 + n] \notin PathSafe

\* line c from position i on, the token starting at each j in TokenStarts(c)
\* replaced by repl[j] and every other character copied
RECURSIVE Substituted(_, _, _)
Substituted(c, i, repl) ==
  IF i >= Len(c) THEN <<>>
  ELSE IF i \in TokenStarts(c)
    THEN repl[i] \o Substituted(c, i + TokenLength(c, i), repl)
  ELSE <<c[i + 1]>> \o Substituted(c, i + 1, repl)

\* the searches that succeeded, by the log of the call
Resolved == {k \in 1..Len(tr.log) : tr.log[k].ok}

\* C12: when transform_command has returned and no directive of the line
\* was resolved - the line has no directive token, or every search threw -
\* the line returned is the input line, character for character.
C12_UnresolvedLineReturnedUnchanged ==
  (tr.pc = "done" /\ (TokenStarts(tr.command) = {} \/ Resolved = {}))
    => tr.result = tr.command

\* two directives, both searches failed, and text outside them
C12_Witness ==
  /\ tr.pc = "done"
  /\ Len(tr.log) = 2
  /\ Resolved = {}
  /\ tr.log[1].direction # tr.log[2].direction
  /\ tr.log[1].length + tr.log[2].length < Len(tr.command)

\* C20: the line transform_command returns is the input line in which each
\* directive token - a marker and the maximal run of path-safe characters
\* after it - is replaced by the path its search returned (upfind for "<",
\* downfind for ">") or kept when the search threw, every other character
\* copied in order; the tokens are those of the input, met left to right.
C20_OutputIsInputWithTokensSubstituted ==
  tr.pc = "done" =>
    LET c == tr.command
        at(i) == CHOOSE k \in 1..Len(tr.log) : tr.log[k].position = i
        repl == [i \in TokenStarts(c) |->
                   IF tr.log[at(i)].ok THEN tr.log[at(i)].found_path
                   ELSE substr(c, i, TokenLength(c, i))]
    IN  /\ {tr.log[k].position : k \in 1..Len(tr.log)} = TokenStarts(c)
        /\ \A k \in 1..(Len(tr.log) - 1) :
             tr.log[k].position < tr.log[k + 1].position
        /\ \A k \in 1..Len(tr.log) :
             LET d == tr.log[k]
             IN  /\ d.length = TokenLength(c, d.position)
                 /\ d.direction = c[d.position + 1]
                 /\ d.path_pattern = substr(c, d.position + 1, d.length - 1)
                 /\ \E f \in (IF d.direction = "<"
                                THEN {upfind(d.path_pattern, cwd)}
                                ELSE downfind(d.path_pattern, cwd, DefaultLimit)) :
                      f.ok = d.ok /\ (d.ok => f.str = d.found_path)
        /\ tr.result = Substituted(c, 0, repl)

\* a resolved directive and a failed one, of different kinds, with a
\* path-safe run longer than one character
C20_Witness ==
  /\ tr.pc = "done"
  /\ Len(tr.log) = 2
  /\ Cardinality(Resolved) = 1
  /\ tr.log[1].direction # tr.log[2].direction
  /\ \E k \in 1..2 : tr.log[k].length > 2


---------------------------------------------------------------------------
(* Shell::run, main.cpp:187-275: one action per way an iteration goes      *)

\* the strtok(cstr, " ") loop: the runs of non-blank characters; acc is
\* the token being read
RECURSIVE strtok(_, _)
strtok(str, acc) ==
  IF str = <<>> THEN (IF acc = <<>> THEN <<>> ELSE <<acc>>)
  ELSE IF Head(str) = " "
    THEN (IF acc = <<>> THEN <<>> ELSE <<acc>>) \o strtok(Tail(str), <<>>)
  ELSE strtok(Tail(str), Append(acc, Head(str)))

\* the two names run compares args[0] with
cd_name == <<"c", "d">>

exit_name == <<"e", "x", "i", "t">>

\* the chain of tests on args: empty, registry, "cd", "exit", else fork
dispatch(args) ==
  IF args = <<>> THEN "continue"
  ELSE IF args[1] \in DOMAIN custom_commands THEN "registry"
  ELSE IF args[1] = cd_name THEN "cd"
  ELSE IF args[1] = exit_name THEN "exit"
  ELSE "external"

\* custom_commands[command](args): the session after the call and how the
\* call ended.  main's lambdas catch what back() and forward() throw and
\* return; a handler registered by other code returns, throws a
\* std::exception, or throws an object of another type
handler_call(func, s) ==
  IF func = "bk" THEN {[s |-> bk(s).s, outcome |-> "returned"]}
  ELSE IF func = "fw" THEN {[s |-> fw(s).s, outcome |-> "returned"]}
  ELSE {[s |-> s, outcome |-> o] :
          o \in {"returned", "std::exception", "other exception"}}

\* args.size() > 1 ? args[1].c_str() : getenv("HOME")
cd_arg(args) == IF Len(args) > 1 THEN parse_path(args[2]) ELSE NoArg

\* the lines typed: cd <a, cd <ba, cd /a, cd, bk, fw, exit, x, a blank,
\* and the empty line
RunLines ==
  {<<"c", "d", " ", "<", "a">>, <<"c", "d", " ", "<", "b", "a">>,
   <<"c", "d", " ", "/", "a">>, <<"c", "d">>, <<"b", "k">>, <<"f", "w">>,
   <<"e", "x", "i", "t">>, <<"x">>, <<" ">>, <<>>}

\* the names other code registers a handler under, if it does
UserNames == {cd_name, exit_name, <<"x">>}

\* Shell::Shell, then main's registrations and possibly one more, then run
InitRun ==
  /\ fs = SessionTree
  /\ cwd \in DirsOf(SessionTree)
  /\ home \in Homes
  /\ denied = {}
  /\ history = add(EmptyHistory, cwd).history
  /\ current_index = add(EmptyHistory, cwd).current_index
  /\ running = TRUE
  /\ last = NoOp
  /\ prev = NoOp
  /\ up = NoCall
  /\ down = NoCall
  /\ tr = NoCall
  /\ custom_commands \in
       {MainCommands} \cup
       {add_custom_command(MainCommands, n, "user") : n \in UserNames}
  /\ iter = NoIter

\* the transformed lines transform_command can return for line
Transformed(line) == {t.result : t \in transform_command(line, cwd)}

\* a line read and a transformed line the call returns for it
Read ==
  UNION {{[line |-> line, transformed |-> t] : t \in Transformed(line)} :
           line \in RunLines}

\* readline returns nullptr: break
EndOfInput ==
  /\ running
  /\ running' = FALSE
  /\ iter' = Iter(<<>>, <<>>, <<>>, "eof", "none", "none", FALSE)
  /\ UNCHANGED <<history, current_index, fs, cwd, home, denied, last, prev,
                 up, down, tr, custom_commands>>

\* input_line.empty() or args.empty(): continue
Continue ==
  \E in \in Read :
    /\ running
    /\ dispatch(strtok(in.transformed, <<>>)) = "continue"
    /\ iter' = Iter(in.line, in.transformed, <<>>, "continue", "none", "none", FALSE)
    /\ UNCHANGED <<history, current_index, fs, cwd, home, denied, running,
                   last, prev, up, down, tr, custom_commands>>

\* the command is in the registry: its handler is called inside
\* try { } catch (const std::exception &e); an exception of another type
\* leaves run and main, and std::terminate ends the process
Registered ==
  \E in \in Read :
    LET args == strtok(in.transformed, <<>>)
    IN  /\ running
        /\ dispatch(args) = "registry"
        /\ \E r \in handler_call(custom_commands[args[1]], S) :
             /\ Len(r.s.h.history) <= MaxHist
             /\ history' = r.s.h.history
             /\ current_index' = r.s.h.current_index
             /\ cwd' = r.s.cwd
             /\ running' = (r.outcome # "other exception")
             /\ iter' = Iter(in.line, in.transformed, args, "registry",
                             custom_commands[args[1]], r.outcome, FALSE)
        /\ UNCHANGED <<fs, home, denied, last, prev, up, down, tr,
                       custom_commands>>

\* command == "cd"
BuiltinCd ==
  \E in \in Read :
    LET args == strtok(in.transformed, <<>>)
        r == cd(S, cd_arg(args))
    IN  /\ running
        /\ dispatch(args) = "cd"
        /\ Len(r.s.h.history) <= MaxHist
        /\ history' = r.s.h.history
        /\ current_index' = r.s.h.current_index
        /\ cwd' = r.s.cwd
        /\ iter' = Iter(in.line, in.transformed, args, "cd", "none",
                        IF r.ok THEN "changed" ELSE "chdir failed", FALSE)
        /\ UNCHANGED <<fs, home, denied, running, last, prev, up, down, tr,
                       custom_commands>>

\* command == "exit": break
BuiltinExit ==
  \E in \in Read :
    LET args == strtok(in.transformed, <<>>)
    IN  /\ running
        /\ dispatch(args) = "exit"
        /\ running' = FALSE
        /\ iter' = Iter(in.line, in.transformed, args, "exit", "none", "none", FALSE)
        /\ UNCHANGED <<history, current_index, fs, cwd, home, denied, last,
                       prev, up, down, tr, custom_commands>>

\* fork(): it fails, or the child execs (or exits) and the shell waits
ExternalProgram ==
  \E in \in Read :
    LET args == strtok(in.transformed, <<>>)
    IN  /\ running
        /\ dispatch(args) = "external"
        /\ \E child \in BOOLEAN :
             iter' = Iter(in.line, in.transformed, args, "external", "none",
                          IF child THEN "waited" ELSE "fork failed", child)
        /\ UNCHANGED <<history, current_index, fs, cwd, home, denied,
                       running, last, prev, up, down, tr, custom_commands>>

NextRun ==
  \/ EndOfInput
  \/ Continue
  \/ Registered
  \/ BuiltinCd
  \/ BuiltinExit
  \/ ExternalProgram

SpecRun == InitRun /\ [][NextRun]_vars


---------------------------------------------------------------------------
(* Dispatch and the session loop                                           *)

\* the branch the fixed order registry, cd, exit, external gives a name
InOrder(name) ==
  IF name \in DOMAIN custom_commands THEN "registry"
  ELSE IF name = cd_name THEN "cd"
  ELSE IF name = exit_name THEN "exit"
  ELSE "external"

\* what C13 says of one iteration on a non-empty token list
DispatchedInOrder ==
  LET name == iter'.args[1]
  IN  /\ iter'.branch = InOrder(name)
      /\ iter'.branch = "registry" <=> iter'.handler # "none"
      /\ name \in DOMAIN custom_commands =>
           /\ iter'.handler = custom_commands[name]
           /\ running'
           /\ iter'.handler = "user" =>
                UNCHANGED <<cwd, history, current_index>>
      /\ iter'.branch # "external" => ~iter'.child
      /\ iter'.branch \in {"cd", "external"} => running'

\* C13: on a non-empty token list one branch runs, the first of registry,
\* cd, exit, external that applies; a registered name calls its handler
\* and nothing else - under the names cd and exit too: no directory change
\* by the built-in, and the loop goes on - and only the external branch
\* makes a child process.
C13_OneBranchInFixedOrder ==
  [][ (running /\ iter'.args # <<>>) => DispatchedInOrder ]_vars

\* the same, for the iterations whose handler does not throw an object
\* that is no std::exception
C13_OneBranchUnlessUncaught ==
  [][ (running /\ iter'.args # <<>> /\ iter'.outcome # "other exception")
        => DispatchedInOrder ]_vars

\* C14: the loop is left only by the built-in exit or by end of input;
\* after every other iteration, whatever failed in it, the next line is
\* read.
C14_LoopEndsOnlyOnExitOrEof ==
  [][ (running /\ ~running') => iter'.branch \in {"exit", "eof"} ]_vars

\* the only other way out is a handler's exception that is no
\* std::exception
C14_LoopEndsOnUncaughtToo ==
  [][ (running /\ ~running') =>
        \/ iter'.branch \in {"exit", "eof"}
        \/ iter'.branch = "registry" /\ iter'.outcome = "other exception" ]_vars

\* the names looked for upwards: a and ba
UpwardNames == {<<"a">>, <<"b", "a">>}

\* C16: after a line "cd <name", run by the built-in cd, whose upward
\* search from the working directory finds the directory P, the line
\* tokenized is "cd P", the working directory is P and the history's
\* current entry is P.
C16_CdUpwardDirective ==
  [][ \A name \in UpwardNames :
        LET found == upfind(name, cwd)
        IN  (running /\ iter'.line = cd_name \o <<" ", "<">> \o name /\ found.ok
             /\ iter'.branch = "cd")
              => /\ iter'.transformed = cd_name \o <<" ">> \o found.str
                 /\ iter'.args = <<cd_name, found.str>>
                 /\ abs_string(cwd') = found.str
                 /\ abs_string(current(H)') = found.str ]_vars

\* the same with P somewhere in the history, current entry or not
C16_CdUpwardDirectiveEntersP ==
  [][ \A name \in UpwardNames :
        LET found == upfind(name, cwd)
        IN  (running /\ iter'.line = cd_name \o <<" ", "<">> \o name /\ found.ok
             /\ iter'.branch = "cd")
              => /\ iter'.transformed = cd_name \o <<" ">> \o found.str
                 /\ iter'.args = <<cd_name, found.str>>
                 /\ abs_string(cwd') = found.str
                 /\ \E k \in 1..Len(history') :
                      abs_string(history'[k]) = found.str ]_vars

====
